---- MODULE Spec2Model ----
(***************************************************************************)
(* Timing and judgement core of iris: the chart scheduler (NoteSystem,     *)
(* src/src/chart.rs) and the input judgement (JudgeSystem,                 *)
(* src/src/judge.rs), run once per frame by the engine dispatcher.         *)
(*                                                                         *)
(* Units.  Times are integers counting hundredths of a second, so the      *)
(* f32 windows 0.04, 0.08 and 0.15 are 4, 8 and 15.  Screen coordinates    *)
(* count thousandths.  Tempo positions count 1/6000 of a beat, which makes *)
(* (time - point.time) * bpm / 60 the integer (time - point.time) * bpm.   *)
(***************************************************************************)
EXTENDS Integers, Sequences, FiniteSets, TLC

VARIABLES
    clock,          \* Time::absolute_time_seconds()
    settings,       \* the Option<PlaySettings> resource
    play,           \* the speed, offset and norm_threshold sessions are played with
    chart,          \* the Option<Chart> resource (always Some here)
    state,          \* the ChartState resource
    laser_storage,  \* lane-group entities: entity id -> Laser component and y
    note_storage,   \* note entities: entity id -> Note component and transform
    killed,         \* entities deleted by a system, removed at the next maintain
    next_eid,       \* entity allocator
    verdicts,       \* judgement texts emitted so far, in order
    processed,      \* laser events applied so far (indices into chart.lasers)
    spawned,        \* notes spawned so far (indices into chart.notes)
    pc,             \* position in the frame
    rq,             \* operands and results of the range and tempo harnesses
    unread          \* events of the channel the JudgeSystem reader has not read

vars == <<clock, settings, play, chart, state, laser_storage, note_storage, killed,
          next_eid, verdicts, processed, spawned, pc, rq, unread>>

(***************************************************************************)
(* Bounds of the model.                                                    *)
(***************************************************************************)
MaxStart == 1
MaxNoteTime == 13
MaxDt == 2
MaxQueue == 2
MaxLen == 4
MaxT == 4

(***************************************************************************)
(* Program constants.                                                      *)
(***************************************************************************)
PERFECT_WINDOW == 4
NEAR_WINDOW == 8
EARLY_MISS_WINDOW == 15

None == [none |-> TRUE]


(***************************************************************************)
(* Timed sequences and the two searches over them.                         *)
(***************************************************************************)
\* RangeCmp with the lower bound excluded.
RangeCmp_lo(x, lo, hi) ==
    IF x.time <= lo THEN "Less"
    ELSE IF x.time >= hi THEN "Greater"
    ELSE "Equal"

\* RangeCmp with the upper bound included.
RangeCmp_hi(x, lo, hi) ==
    IF x.time < lo THEN "Less"
    ELSE IF x.time > hi THEN "Greater"
    ELSE "Equal"

\* The comparator closure of equal_range_by_time.
RangeCmp(x, lo, hi) ==
    IF x.time < lo THEN "Less"
    ELSE IF x.time >= hi THEN "Greater"
    ELSE "Equal"

\* slice.equal_range_by: two interleaved binary searches, one for the first
\* element that is not Less and one for the first that is Greater.  Indices
\* are Rust's (0-based); element i of the slice is slice[i + 1].
RECURSIVE EqualRangeLoop(_, _, _, _, _, _)
EqualRangeLoop(slice, lo, hi, size, b0, b1) ==
    IF size > 1
    THEN LET half == size \div 2
             m0 == b0 + half
             m1 == b1 + half
             n0 == IF RangeCmp(slice[m0 + 1], lo, hi) = "Less" THEN m0 ELSE b0
             n1 == IF RangeCmp(slice[m1 + 1], lo, hi) # "Greater" THEN m1 ELSE b1
         IN  EqualRangeLoop(slice, lo, hi, size - half, n0, n1)
    ELSE <<b0 + (IF RangeCmp(slice[b0 + 1], lo, hi) = "Less" THEN 1 ELSE 0),
           b1 + (IF RangeCmp(slice[b1 + 1], lo, hi) # "Greater" THEN 1 ELSE 0)>>

\* equal_range_by_time: <<-1, -1>> stands for the panic of the failed
\* assertion lo <= hi, else the half-open index range <<start, end>>.
Panic == <<-1, -1>>

\* equal_range_by_time without the assertion.
equal_range_by_time_unchecked(slice, lo, hi) ==
    IF Len(slice) = 0 THEN <<0, 0>>
    ELSE EqualRangeLoop(slice, lo, hi, Len(slice), 0, 0)

equal_range_by_time(slice, lo, hi) ==
    IF ~(lo <= hi) THEN Panic
    ELSE IF Len(slice) = 0 THEN <<0, 0>>
    ELSE EqualRangeLoop(slice, lo, hi, Len(slice), 0, 0)

\* slice.lower_bound_by(|x| x.time.partial_cmp(&time)): the first index whose
\* element is not Less than time.
RECURSIVE LowerBoundLoop(_, _, _, _)
LowerBoundLoop(slice, time, size, base) ==
    IF size > 1
    THEN LET half == size \div 2
             mid == base + half
         IN  LowerBoundLoop(slice, time, size - half,
                            IF slice[mid + 1].time < time THEN mid ELSE base)
    ELSE base + (IF slice[base + 1].time < time THEN 1 ELSE 0)

lower_bound_by_time(slice, time) ==
    IF Len(slice) = 0 THEN 0 ELSE LowerBoundLoop(slice, time, Len(slice), 0)

\* position_for_time without the position of the tempo point.
position_for_time_seg(bpms, time) ==
    LET lb == lower_bound_by_time(bpms, time)
        lower_bound == bpms[(IF lb = 0 THEN 0 ELSE lb - 1) + 1]
    IN  (time - lower_bound.time) * lower_bound.bpm

\* position_for_time with the upper bound for the lower bound.
position_for_time_le(bpms, time) ==
    LET lb == lower_bound_by_time(bpms, time + 1)
        lower_bound == bpms[(IF lb = 0 THEN 0 ELSE lb - 1) + 1]
    IN  lower_bound.position + (time - lower_bound.time) * lower_bound.bpm

\* position_for_time; bpms is never empty.
position_for_time(bpms, time) ==
    LET lb == lower_bound_by_time(bpms, time)
        lower_bound == bpms[(IF lb = 0 THEN 0 ELSE lb - 1) + 1]
    IN  lower_bound.position + (time - lower_bound.time) * lower_bound.bpm

(***************************************************************************)
(* Charts.  The first is the chart of MainStage::initialize_chart with the *)
(* note times brought inside the bounds; the second exercises ties, Leave, *)
(* re-entry, a tempo change, a laser event before time 0 and a note        *)
(* earlier than the look-ahead; four break one chart invariant each, and  *)
(* the last two are described where they are defined.                      *)
(***************************************************************************)
Enter(t, id, y, lanes) ==
    [time |-> t, id |-> id, cmd |-> "Enter", y |-> y, lanes |-> lanes]
Leave(t, id) ==
    [time |-> t, id |-> id, cmd |-> "Leave", y |-> 0, lanes |-> 0]
LineTo(t, id) ==
    [time |-> t, id |-> id, cmd |-> "LineTo", y |-> 0, lanes |-> 0]
TimedNote(t, laser, lane) == [time |-> t, laser |-> laser, lane |-> lane]
BpmCommand(t, bpm, position) == [time |-> t, bpm |-> bpm, position |-> position]

ChartMain ==
    [notes |-> <<TimedNote(10, 0, 1), TimedNote(10, 0, 2)>>,
     bpm |-> <<BpmCommand(0, 200, 0)>>,
     lasers |-> <<Enter(0, 0, 300, 4)>>,
     default_bpm |-> 200]

ChartLanes ==
    [notes |-> <<TimedNote(5, 0, 0), TimedNote(12, 0, 1)>>,
     bpm |-> <<BpmCommand(0, 200, 0), BpmCommand(10, 100, 2000)>>,
     lasers |-> <<Enter(-1, 2, 0, 1), Enter(0, 0, 300, 4), Enter(0, 1, 0, 2),
                  Leave(3, 1), Enter(3, 1, 0, 2), Leave(5, 1)>>,
     default_bpm |-> 200]

ChartDupEnter ==
    [notes |-> <<TimedNote(12, 0, 1)>>,
     bpm |-> <<BpmCommand(0, 200, 0)>>,
     lasers |-> <<Enter(0, 0, 300, 4), Enter(2, 1, 0, 2), Enter(2, 0, 300, 4)>>,
     default_bpm |-> 200]

ChartBadLeave ==
    [notes |-> <<TimedNote(12, 0, 1)>>,
     bpm |-> <<BpmCommand(0, 200, 0)>>,
     lasers |-> <<Enter(0, 0, 300, 4), Leave(2, 1)>>,
     default_bpm |-> 200]

ChartBadNote ==
    [notes |-> <<TimedNote(10, 0, 1), TimedNote(11, 1, 0)>>,
     bpm |-> <<BpmCommand(0, 200, 0)>>,
     lasers |-> <<Enter(0, 0, 300, 4)>>,
     default_bpm |-> 200]

ChartLineTo ==
    [notes |-> <<TimedNote(12, 0, 1)>>,
     bpm |-> <<BpmCommand(0, 200, 0)>>,
     lasers |-> <<Enter(0, 0, 300, 4), Enter(1, 1, 0, 2), LineTo(2, 0)>>,
     default_bpm |-> 200]

\* Two notes at different times on lanes 2 and 1: they are at the same
\* distance from one key, and the later one is the nearer to another key.
ChartCross ==
    [notes |-> <<TimedNote(10, 0, 2), TimedNote(13, 0, 1)>>,
     bpm |-> <<BpmCommand(0, 200, 0)>>,
     lasers |-> <<Enter(0, 0, 300, 4)>>,
     default_bpm |-> 200]

\* A lane-group that enters after time 0 and before its only note, by less
\* than the look-ahead; the tempo is 1.5 times default_bpm, which puts the
\* cutoff above 0.95.
ChartLateEnter ==
    [notes |-> <<TimedNote(12, 1, 0)>>,
     bpm |-> <<BpmCommand(0, 300, 0)>>,
     lasers |-> <<Enter(0, 0, 300, 4), Enter(5, 1, 0, 2)>>,
     default_bpm |-> 200]

Charts ==
    {c \in {ChartMain, ChartLanes, ChartDupEnter, ChartBadLeave, ChartBadNote,
            ChartLineTo, ChartCross, ChartLateEnter} :
        \A i \in 1..Len(c.notes) : c.notes[i].time <= MaxNoteTime}

(***************************************************************************)
(* Play settings a session can start with (speed, offset, norm_threshold;  *)
(* norm_threshold counts 1e-8: 1.0 is 100000000, and 2372500 is the metric *)
(* between the key at (0.5, 0) and lanes 1 and 2 of 4 at y = 0.3).         *)
(***************************************************************************)
PlayOptions ==
    {[speed |-> 10, offset |-> 0, norm_threshold |-> 100000000],
     [speed |-> 9, offset |-> -7, norm_threshold |-> 2372500]}

MaxLag == 7
MaxClock == MaxStart + MaxNoteTime + NEAR_WINDOW + MaxLag + 1

(***************************************************************************)
(* Input Mapper.                                                           *)
(***************************************************************************)
Layout ==
    [width |-> 10,
     rows |-> <<[offset |-> 0, keys |-> <<31, 30>>],
                [offset |-> 0, keys |-> <<44>>]>>]

Scancodes == {30, 31, 44, 57}

\* The tuple order of (ScanCode, (f32, f32)) used by sort_unstable_by.
TupleLess(a, b) ==
    \/ a[1] < b[1]
    \/ a[1] = b[1] /\ a[2][1] < b[2][1]
    \/ a[1] = b[1] /\ a[2][1] = b[2][1] /\ a[2][2] < b[2][2]

RECURSIVE Insert(_, _)
Insert(sorted, e) ==
    IF sorted = <<>> THEN <<e>>
    ELSE IF TupleLess(e, Head(sorted)) THEN <<e>> \o sorted
    ELSE <<Head(sorted)>> \o Insert(Tail(sorted), e)

RECURSIVE SortTuples(_)
SortTuples(s) ==
    IF s = <<>> THEN <<>> ELSE Insert(SortTuples(Tail(s)), Head(s))

\* The keys of row i (0-based), each with (i / height, (offset + j) / width)
\* where width is the number of keys of the row.
RowEntries(map, i) ==
    LET r == map.rows[i + 1]
        height == Len(map.rows)
        width == Len(r.keys)
    IN  [j1 \in 1..Len(r.keys) |->
            <<r.keys[j1],
              <<(i * 1000) \div height, ((r.offset + (j1 - 1)) * 1000) \div width>>>>]

RECURSIVE FlatRows(_, _)
FlatRows(map, i) ==
    IF i >= Len(map.rows) THEN <<>>
    ELSE RowEntries(map, i) \o FlatRows(map, i + 1)

into_mapping(map) == SortTuples(FlatRows(map, 0))

mapping == into_mapping(Layout)

\* self.mapping.binary_search_by_key(&scancode, |(s, _)| s): the index of an
\* entry with the key (0-based), or -1 for Err.
RECURSIVE BinarySearchLoop(_, _, _, _)
BinarySearchLoop(m, key, left, right) ==
    IF left >= right THEN -1
    ELSE LET mid == left + (right - left) \div 2
         IN  IF m[mid + 1][1] < key THEN BinarySearchLoop(m, key, mid + 1, right)
             ELSE IF m[mid + 1][1] > key THEN BinarySearchLoop(m, key, left, mid)
             ELSE mid

\* binary_search_by_key with a failed search resolved to the first entry.
binary_search_by_key_first(m, key) ==
    IF BinarySearchLoop(m, key, 0, Len(m)) = -1 THEN 0
    ELSE BinarySearchLoop(m, key, 0, Len(m))

binary_search_by_key(m, key) == BinarySearchLoop(m, key, 0, Len(m))

(***************************************************************************)
(* Initial state: no session, ChartState::default(), an empty world.       *)
(***************************************************************************)
EmptyMap == [x \in {} |-> 0]

ChartStateDefault ==
    [draw_window |-> [start |-> 0, end |-> 0, nan |-> FALSE], cutoff |-> <<7, 10>>, lasers |-> EmptyMap,
     last_time |-> 0]

WorldInit ==
    /\ clock = 0
    /\ settings = None
    /\ state = ChartStateDefault
    /\ laser_storage = EmptyMap
    /\ note_storage = EmptyMap
    /\ killed = {}
    /\ next_eid = 0
    /\ verdicts = <<>>
    /\ processed = <<>>
    /\ spawned = <<>>
    /\ unread = <<>>

Init ==
    /\ WorldInit
    /\ chart \in Charts
    /\ play \in PlayOptions
    /\ pc = "frame"
    /\ rq = None

(***************************************************************************)
(* Environment: sessions, the clock and the window events of a frame.      *)
(***************************************************************************)
\* MainStage::initialize_chart: base_time is the clock at the start.
StartSession ==
    /\ pc = "frame"
    /\ settings = None
    /\ clock <= MaxStart
    /\ settings' = [speed |-> play.speed, base_time |-> clock,
                    offset |-> play.offset, norm_threshold |-> play.norm_threshold]
    /\ UNCHANGED <<clock, play, chart, state, laser_storage, note_storage, killed,
                   next_eid, verdicts, processed, spawned, pc, rq, unread>>

\* Sessions are started and ended while the clock is at most MaxStart.
EndSession ==
    /\ pc = "frame"
    /\ settings # None
    /\ clock <= MaxStart
    /\ settings' = None
    /\ UNCHANGED <<clock, play, chart, state, laser_storage, note_storage, killed,
                   next_eid, verdicts, processed, spawned, pc, rq, unread>>

Pressed(k) == [state |-> "Pressed", scancode |-> k]
Released(k) == [state |-> "Released", scancode |-> k]
WindowEvents == {Pressed(k) : k \in Scancodes \ {31}} \cup {Released(44)}

RECURSIVE SeqsUpTo(_, _)
SeqsUpTo(S, n) ==
    IF n = 0 THEN {<<>>}
    ELSE LET shorter == SeqsUpTo(S, n - 1)
         IN  shorter \cup {Append(q, e) : q \in shorter, e \in S}

\* One engine frame begins: the clock moves by dt; the dispatcher then runs
\* the systems.
AdvanceFrame(dt) ==
    /\ pc = "frame"
    /\ clock + dt <= MaxClock
    /\ clock' = clock + dt
    /\ pc' = "note_system"
    /\ UNCHANGED <<settings, play, chart, state, laser_storage, note_storage, killed,
                   next_eid, verdicts, processed, spawned, rq, unread>>

EventBatches == SeqsUpTo(WindowEvents, MaxQueue)

(***************************************************************************)
(* NoteSystem::run.                                                        *)
(***************************************************************************)
\* The one element of a singleton; {f(v) : v \in {e}} evaluates e once.
Only(S) == CHOOSE x \in S : TRUE

\* LineToArm with the event skipped.
LineToArm_skip(acc) == acc

\* The LineTo arm of the match: unimplemented!() panics.
LineToArm(acc) == [acc EXCEPT !.panic = TRUE]

\* DeleteLaneGroup with the entity kept.
DeleteLaneGroup_keep(deleted, eid) == deleted

\* entities.delete(eid) of the Leave arm: the lane-group entity joins the
\* entities deleted at the next maintain.
DeleteLaneGroup(deleted, eid) == deleted \cup {eid}

\* The loop over &lasers[range]: acc carries state.lasers, the laser
\* storage, the deleted entities, the allocator and the log; a failed
\* assert!/unwrap()/unimplemented!() sets acc.panic and ends the loop.
RECURSIVE LoadLasers(_, _, _, _)
LoadLasers(lasers, i, end, acc) ==
    IF i >= end \/ acc.panic THEN acc
    ELSE LET to_load == lasers[i + 1]
             known == to_load.id \in DOMAIN acc.lasers
             eid == acc.next_eid
             next ==
                 CASE to_load.cmd = "Enter" ->
                        [acc EXCEPT
                            !.next_eid = eid + 1,
                            !.laser_storage = eid :> [lanes |-> to_load.lanes,
                                                      y |-> to_load.y] @@ @,
                            !.lasers = to_load.id :> eid @@ @,
                            !.panic = known,
                            !.processed = IF known THEN @ ELSE Append(@, i)]
                   [] to_load.cmd = "Leave" ->
                        IF known
                        THEN [acc EXCEPT
                                !.lasers = [k \in DOMAIN @ \ {to_load.id} |-> @[k]],
                                !.killed = DeleteLaneGroup(@, acc.lasers[to_load.id]),
                                !.processed = Append(@, i)]
                        ELSE [acc EXCEPT !.panic = TRUE]
                   [] OTHER -> LineToArm(acc)
         IN  Only({LoadLasers(lasers, i + 1, end, bound) : bound \in {next}})

\* The loop over &notes[range].  A note entity gets its Note component
\* first; the lookup state.lasers[&to_load.laser] panics when the id is
\* unknown, and leaves the entity without a transform.
RECURSIVE LoadNotes(_, _, _, _, _)
LoadNotes(notes, bpms, i, end, acc) ==
    IF i >= end \/ acc.panic THEN acc
    ELSE LET to_load == notes[i + 1]
             known == to_load.laser \in DOMAIN acc.lasers
             eid == acc.next_eid
             laser_id == acc.lasers[to_load.laser]
             laser == acc.laser_storage[laser_id]
             bare == [time |-> to_load.time, index |-> i, transform |-> FALSE,
                      parent |-> None, x |-> 0, y |-> 0, z |-> 0]
             placed == [time |-> to_load.time, index |-> i, transform |-> TRUE,
                        parent |-> laser_id,
                        x |-> (to_load.lane * 1000 + 500) \div laser.lanes,
                        y |-> laser.y,
                        z |-> position_for_time(bpms, to_load.time)]
             next ==
                 IF known
                 THEN [acc EXCEPT !.next_eid = eid + 1,
                                  !.note_storage = eid :> placed @@ @,
                                  !.spawned = Append(@, i)]
                 ELSE [acc EXCEPT !.next_eid = eid + 1,
                                  !.note_storage = eid :> bare @@ @,
                                  !.panic = TRUE]
         IN  Only({LoadNotes(notes, bpms, i + 1, end, bound) : bound \in {next}})

\* cutoff and clamped_cutoff as exact fractions <<n, d>> with d > 0.
\* cutoff = 0.7 * (end_pos - start_pos) / (default_bpm / 60.) / speed
RawCutoff(c, speed, start_pos, end_pos) ==
    <<7 * (end_pos - start_pos), 10 * c.default_bpm * speed>>

\* ClampedCutoff without the ceiling.
ClampedCutoff_raw(raw) == raw

\* cutoff.min(0.95)
ClampedCutoff(raw) ==
    IF raw[1] * 100 > 95 * raw[2] THEN <<95, 100>> ELSE raw

\* start_pos + (end_pos - start_pos) * clamped_cutoff / cutoff.  Where the
\* cutoff is not clamped the factor is cutoff / cutoff; where it is clamped,
\* (end_pos - start_pos) cancels against the numerator of cutoff, leaving
\* 0.95 * raw[2] / 7.  Where cutoff is 0 the f32 expression divides 0 by 0:
\* the end of the window is NaN, recorded in draw_window.nan.
ClampedEndPos(raw, start_pos, end_pos) ==
    IF raw[1] = 0 THEN 0
    ELSE IF ClampedCutoff(raw) = raw THEN end_pos
    ELSE start_pos + (95 * raw[2]) \div (100 * 7)

NowRel == clock - settings.base_time

\* The range of laser events a tick loads.
LaserRange(lasers, last_time, now_rel) ==
    equal_range_by_time(lasers, last_time, now_rel)

\* NoteRange without the look-ahead on the lower bound.
NoteRange_lo(notes, last_time, now_rel, speed) ==
    equal_range_by_time(notes, last_time, now_rel + speed)

\* NoteRange with the upper bound included.
NoteRange_hi(notes, last_time, now_rel, speed) ==
    equal_range_by_time(notes, last_time + speed, now_rel + speed + 1)

\* The range of notes a tick loads.
NoteRange(notes, last_time, now_rel, speed) ==
    equal_range_by_time(notes, last_time + speed, now_rel + speed)

\* The accumulator the loops of run start from.
WorldAcc ==
    [lasers |-> state.lasers, laser_storage |-> laser_storage,
     note_storage |-> note_storage, killed |-> killed,
     next_eid |-> next_eid, processed |-> processed,
     spawned |-> spawned, panic |-> FALSE]

\* What run writes to the ChartState when it reaches its end.
Committed(now_rel, start_pos, end_pos, lasers) ==
    LET cutoff == RawCutoff(chart, settings.speed, start_pos, end_pos)
    IN  [cutoff |-> ClampedCutoff(cutoff),
         draw_window |-> [start |-> start_pos,
                          end |-> ClampedEndPos(cutoff, start_pos, end_pos),
                          nan |-> cutoff[1] = 0],
         last_time |-> now_rel,
         lasers |-> lasers]

\* IdleChartState with the ChartState reset.
IdleChartState_reset == ChartStateDefault

\* The ChartState run leaves when settings is None: the if let has no else.
IdleChartState == state

\* AbortedChartState with last_time committed.
AbortedChartState_commit(lasers) ==
    [state EXCEPT !.lasers = lasers, !.last_time = NowRel]

\* The ChartState a panicking run leaves: the map as the loops changed it,
\* and the fields assigned at the end of run as they were.
AbortedChartState(lasers) == [state EXCEPT !.lasers = lasers]

\* Each \E binds one let of run to its value.
NoteSystemRun ==
    /\ pc = "note_system"
    /\ IF settings = None
       THEN /\ pc' = "judge_system"
            /\ state' = IdleChartState
            /\ UNCHANGED <<laser_storage, note_storage, killed,
                           next_eid, processed, spawned>>
       ELSE \E now_rel \in {NowRel} :
            \E start_pos \in {position_for_time(chart.bpm, now_rel)} :
            \E end_pos \in {position_for_time(chart.bpm, now_rel + settings.speed)} :
            \E lrange \in {LaserRange(chart.lasers, state.last_time, now_rel)} :
            \E nrange \in {NoteRange(chart.notes, state.last_time, now_rel,
                                     settings.speed)} :
            \E acc1 \in {IF lrange = Panic THEN [WorldAcc EXCEPT !.panic = TRUE]
                         ELSE LoadLasers(chart.lasers, lrange[1], lrange[2], WorldAcc)} :
            \E acc2 \in {IF acc1.panic \/ nrange = Panic
                         THEN [acc1 EXCEPT !.panic = TRUE]
                         ELSE LoadNotes(chart.notes, chart.bpm, nrange[1], nrange[2],
                                        acc1)} :
                /\ laser_storage' = acc2.laser_storage
                /\ note_storage' = acc2.note_storage
                /\ killed' = acc2.killed
                /\ next_eid' = acc2.next_eid
                /\ processed' = acc2.processed
                /\ spawned' = acc2.spawned
                /\ IF acc2.panic
                   THEN /\ state' = AbortedChartState(acc2.lasers)
                        /\ pc' = "aborted"
                   ELSE /\ state' = Committed(now_rel, start_pos, end_pos, acc2.lasers)
                        /\ pc' = "judge_system"
    /\ UNCHANGED <<clock, settings, play, chart, verdicts, rq, unread>>

(***************************************************************************)
(* JudgeSystem::run.                                                       *)
(***************************************************************************)
\* (&entities, &mut notes, &transforms).join(): the entities that have a
\* Note and a Transform, in ascending id order.  An entity deleted earlier
\* in the frame is still joined: Entities::delete only marks it, and the
\* mark takes effect when the world is maintained after the dispatch.
RECURSIVE Ascending(_)
Ascending(S) ==
    IF S = {} THEN <<>>
    ELSE LET m == CHOOSE x \in S : \A y \in S : x <= y
         IN  <<m>> \o Ascending(S \ {m})

JoinNotes(storage) ==
    Ascending({e \in DOMAIN storage : storage[e].transform})

\* (-w..w).contains(&diff) and (-NEAR_WINDOW..EARLY_MISS_WINDOW).contains(&diff)
RangeContains(lo, hi, v) == lo <= v /\ v < hi

\* Matrix3::new_nonuniform_scaling((1.0, 0.3)).transform_vector(d).norm_squared()
\* in units of 1e-8: (dx)^2 + (0.3 dy)^2 with dx, dy in thousandths.
NormSquared(input_pos, x, y) ==
    LET dx == input_pos[1] - x
        dy == input_pos[2] - y
    IN  (10 * dx) * (10 * dx) + (3 * dy) * (3 * dy)

\* CandidateCmp with the tie broken by the magnitude of the diff.
CandidateCmp_abs(lhs, rhs) ==
    LET l == IF lhs.diff < 0 THEN -lhs.diff ELSE lhs.diff
        r == IF rhs.diff < 0 THEN -rhs.diff ELSE rhs.diff
    IN  IF lhs.norm < rhs.norm THEN "Less"
        ELSE IF lhs.norm > rhs.norm THEN "Greater"
        ELSE IF l < r THEN "Less"
        ELSE IF l > r THEN "Greater"
        ELSE "Equal"

\* The comparator of min_by: the norm first, then the diff.
CandidateCmp(lhs, rhs) ==
    IF lhs.norm < rhs.norm THEN "Less"
    ELSE IF lhs.norm > rhs.norm THEN "Greater"
    ELSE IF lhs.diff < rhs.diff THEN "Less"
    ELSE IF lhs.diff > rhs.diff THEN "Greater"
    ELSE "Equal"

\* MinBy that keeps the later of two candidates that compare Equal.
RECURSIVE MinBy_last(_, _)
MinBy_last(best, rest) ==
    IF rest = <<>> THEN best
    ELSE MinBy_last(IF CandidateCmp(best, Head(rest)) = "Less" THEN best ELSE Head(rest),
                    Tail(rest))

\* MinBy that takes the first candidate enumerated.
MinBy_first(best, rest) == best

\* Iterator::min_by keeps the earlier element unless it compares Greater.
RECURSIVE MinBy(_, _)
MinBy(best, rest) ==
    IF rest = <<>> THEN best
    ELSE MinBy(IF CandidateCmp(best, Head(rest)) = "Greater" THEN Head(rest) ELSE best,
               Tail(rest))

\* InTimeWindow with the near window on both sides.
InTimeWindow_near(diff) == RangeContains(-NEAR_WINDOW, NEAR_WINDOW, diff)

\* InTimeWindow with the early-miss window on both sides.
InTimeWindow_wide(diff) == RangeContains(-EARLY_MISS_WINDOW, EARLY_MISS_WINDOW, diff)

\* The first filter: the time window of a key press.
InTimeWindow(diff) == RangeContains(-NEAR_WINDOW, EARLY_MISS_WINDOW, diff)

\* InNorm with the threshold excluded.
InNorm_lt(norm, norm_threshold) == norm < norm_threshold

\* The second filter: the distance threshold.
InNorm(norm, norm_threshold) == norm <= norm_threshold

\* The candidates of one key press, in join order.
Candidates(storage, rel, input_pos, norm_threshold) ==
    LET joined == JoinNotes(storage)
        cand(e) == [entity |-> e, diff |-> storage[e].time - rel,
                    x |-> storage[e].x, y |-> storage[e].y,
                    norm |-> NormSquared(input_pos, storage[e].x, storage[e].y)]
    IN  SelectSeq([k \in 1..Len(joined) |-> cand(joined[k])],
                  LAMBDA c : InTimeWindow(c.diff) /\ InNorm(c.norm, norm_threshold))

\* Grade with both windows open at their lower ends.
Grade_open(diff) ==
    IF -PERFECT_WINDOW < diff /\ diff < PERFECT_WINDOW THEN "PERFECT"
    ELSE IF -NEAR_WINDOW < diff /\ diff < NEAR_WINDOW THEN "NEAR"
    ELSE "MISS"

\* Grade with the perfect window closed at its upper end.
Grade_perfect(diff) ==
    IF -PERFECT_WINDOW <= diff /\ diff <= PERFECT_WINDOW THEN "PERFECT"
    ELSE IF RangeContains(-NEAR_WINDOW, NEAR_WINDOW, diff) THEN "NEAR"
    ELSE "MISS"

\* Grade with the near window closed at its upper end.
Grade_near(diff) ==
    IF RangeContains(-PERFECT_WINDOW, PERFECT_WINDOW, diff) THEN "PERFECT"
    ELSE IF -NEAR_WINDOW <= diff /\ diff <= NEAR_WINDOW THEN "NEAR"
    ELSE "MISS"

\* Grade without the MISS arm.
Grade_nomiss(diff) ==
    IF RangeContains(-PERFECT_WINDOW, PERFECT_WINDOW, diff) THEN "PERFECT"
    ELSE "NEAR"

\* The text of the verdict of a key press.
Grade(diff) ==
    IF RangeContains(-PERFECT_WINDOW, PERFECT_WINDOW, diff) THEN "PERFECT"
    ELSE IF RangeContains(-NEAR_WINDOW, NEAR_WINDOW, diff) THEN "NEAR"
    ELSE "MISS"

\* SweepRel with the subtraction reversed.
SweepRel_rev == (settings.base_time - clock) + settings.offset

\* rel of the key-press arm and rel of the sweep: the same expression,
\* evaluated twice in run.
KeyRel == (clock - settings.base_time) + settings.offset

SweepRel == (clock - settings.base_time) + settings.offset

\* One iteration of the loop over events.read(): acc carries the verdicts
\* and the deleted entities.
JudgeEvent(event, acc) ==
    IF event.state # "Pressed" \/ settings = None THEN acc
    ELSE LET input_pos_idx == binary_search_by_key(mapping, event.scancode)
         IN  IF input_pos_idx = -1 THEN acc
             ELSE LET input_pos == mapping[input_pos_idx + 1][2]
                      cands == Candidates(note_storage, KeyRel, input_pos,
                                          settings.norm_threshold)
                  IN  IF cands = <<>> THEN acc
                      ELSE LET hit == MinBy(Head(cands), Tail(cands))
                           IN  [acc EXCEPT
                                   !.verdicts = Append(@,
                                       [entity |-> hit.entity, text |-> Grade(hit.diff),
                                        by |-> "key", x |-> hit.x, y |-> hit.y]),
                                   !.killed = @ \cup {hit.entity}]

RECURSIVE JudgeEvents(_, _)
JudgeEvents(evs, acc) ==
    IF evs = <<>> THEN acc
    ELSE Only({JudgeEvents(Tail(evs), bound) : bound \in {JudgeEvent(Head(evs), acc)}})

\* TimedOut with the bound included.
TimedOut_le(time, rel) == time + NEAR_WINDOW <= rel

\* The filter of the sweep.
TimedOut(time, rel) == time + NEAR_WINDOW < rel

\* The loop after the events: every joined note past its window gets MISS.
RECURSIVE Sweep(_, _)
Sweep(joined, acc) ==
    IF joined = <<>> THEN acc
    ELSE LET e == Head(joined)
             n == note_storage[e]
             next ==
                 IF TimedOut(n.time, SweepRel)
                 THEN [acc EXCEPT
                         !.verdicts = Append(@,
                             [entity |-> e, text |-> "MISS", by |-> "timeout",
                              x |-> n.x, y |-> n.y]),
                         !.killed = @ \cup {e}]
                 ELSE acc
         IN  Only({Sweep(Tail(joined), bound) : bound \in {next}})

\* Unread with the events kept while settings is None.
Unread_keep(events) == IF settings = None THEN events ELSE <<>>

\* What the loop over events.read(&mut self.reader_id) leaves unread of the
\* events it is given: the loop has no break, and the reader moves past
\* every event whatever the arm taken.
Unread(events) == <<>>

\* evs are the window events written to the channel since the previous run;
\* events.read(&mut self.reader_id) yields them after those left unread.
JudgeSystemRun(evs) ==
    /\ pc = "judge_system"
    /\ \E acc1 \in {JudgeEvents(unread \o evs,
                                  [verdicts |-> verdicts, killed |-> killed])} :
       \E acc2 \in {IF settings = None THEN acc1
                    ELSE Sweep(JoinNotes(note_storage), acc1)} :
           /\ verdicts' = acc2.verdicts
           /\ killed' = acc2.killed
    /\ unread' = Unread(unread \o evs)
    /\ pc' = "maintain"
    /\ UNCHANGED <<clock, settings, play, chart, state, laser_storage, note_storage,
                   next_eid, processed, spawned, rq>>

(***************************************************************************)
(* World::maintain after the dispatch: the entities deleted during the     *)
(* frame, and their components, go away.                                   *)
(***************************************************************************)
Maintain ==
    /\ pc = "maintain"
    /\ note_storage' = [e \in DOMAIN note_storage \ killed |-> note_storage[e]]
    /\ laser_storage' = [e \in DOMAIN laser_storage \ killed |-> laser_storage[e]]
    /\ killed' = {}
    /\ pc' = "frame"
    /\ UNCHANGED <<clock, settings, play, chart, state, next_eid, verdicts,
                   processed, spawned, rq, unread>>

Next ==
    \/ StartSession
    \/ EndSession
    \/ \E dt \in 0..MaxDt : AdvanceFrame(dt)
    \/ NoteSystemRun
    \/ \E evs \in EventBatches : JudgeSystemRun(evs)
    \/ Maintain

Spec == Init /\ [][Next]_vars

(***************************************************************************)
(* Range-query harness: equal_range_by_time applied to every sorted slice  *)
(* of at most MaxLen elements with times in 0..MaxT and to every           *)
(* a <= b <= c around them.                                                *)
(***************************************************************************)
\* The slices sorted ascending by time, of at most n elements.
IsSorted(slice) ==
    \A i \in 1..Len(slice) - 1 : slice[i].time <= slice[i + 1].time

RECURSIVE SortedSlices(_)
SortedSlices(n) ==
    IF n = 0 THEN {<<>>}
    ELSE LET shorter == SortedSlices(n - 1)
         IN  shorter \cup
             {q \in {Append(p, [time |-> t]) : p \in shorter, t \in 0..MaxT} :
                 IsSorted(q)}

\* The operands of the harness: sorted slices of at most n elements and
\* a <= b <= c in -1..t + 1.
RangeInputs(n, t) ==
    {[slice |-> sl, a |-> abc[1], b |-> abc[2], c |-> abc[3], done |-> FALSE,
      ab |-> <<0, 0>>, bc |-> <<0, 0>>, ac |-> <<0, 0>>] :
        sl \in SortedSlices(n),
        abc \in {x \in (-1..t + 1) \X (-1..t + 1) \X (-1..t + 1) :
                    x[1] <= x[2] /\ x[2] <= x[3]}}

InitRange ==
    /\ WorldInit
    /\ chart = ChartMain
    /\ play \in PlayOptions
    /\ pc = "range"
    /\ rq \in RangeInputs(MaxLen, MaxT)

ApplyRange ==
    /\ pc = "range"
    /\ ~rq.done
    /\ rq' = [rq EXCEPT !.done = TRUE,
                        !.ab = equal_range_by_time(rq.slice, rq.a, rq.b),
                        !.bc = equal_range_by_time(rq.slice, rq.b, rq.c),
                        !.ac = equal_range_by_time(rq.slice, rq.a, rq.c)]
    /\ UNCHANGED <<clock, settings, play, chart, state, laser_storage,
                   note_storage, killed, next_eid, verdicts, processed,
                   spawned, pc, unread>>

NextRange == ApplyRange

SpecRange == InitRange /\ [][NextRange]_vars

(***************************************************************************)
(* Tempo harness: position_for_time applied to every tempo sequence sorted *)
(* by time of 1..MaxTempoLen points, with times in 0..MaxTempoT, and to    *)
(* every pair of query times t1 <= t2 around them.  The bpm values include *)
(* a negative one and 0; the positions are free, so that the sequences     *)
(* include those whose positions are not cumulative.                       *)
(***************************************************************************)
MaxTempoLen == 2
MaxTempoT == 2
TempoBpms == {-1, 0, 2}
TempoPositions == {0, 2, 4}

TempoPoints(t) ==
    {BpmCommand(time, bpm, position) :
        time \in 0..t, bpm \in TempoBpms, position \in TempoPositions}

RECURSIVE TempoSeqs(_, _)
TempoSeqs(n, t) ==
    IF n = 1 THEN {<<point>> : point \in TempoPoints(t)}
    ELSE LET shorter == TempoSeqs(n - 1, t)
         IN  shorter \cup
             {q \in {Append(p, point) : p \in shorter, point \in TempoPoints(t)} :
                 IsSorted(q)}

TempoInputs(n, t) ==
    {[bpms |-> b, t1 |-> q[1], t2 |-> q[2], done |-> FALSE, p1 |-> 0, p2 |-> 0] :
        b \in TempoSeqs(n, t),
        q \in {x \in (-1..t + 1) \X (-1..t + 1) : x[1] <= x[2]}}

InitTempo ==
    /\ WorldInit
    /\ chart = ChartMain
    /\ play \in {o \in PlayOptions : o.offset = 0}
    /\ pc = "tempo"
    /\ rq \in TempoInputs(MaxTempoLen, MaxTempoT)

ApplyTempo ==
    /\ pc = "tempo"
    /\ ~rq.done
    /\ rq' = [rq EXCEPT !.done = TRUE,
                        !.p1 = position_for_time(rq.bpms, rq.t1),
                        !.p2 = position_for_time(rq.bpms, rq.t2)]
    /\ UNCHANGED <<clock, settings, play, chart, state, laser_storage,
                   note_storage, killed, next_eid, verdicts, processed,
                   spawned, pc, unread>>

NextTempo == ApplyTempo

SpecTempo == InitTempo /\ [][NextTempo]_vars

(***************************************************************************)
(* A session that is never ended, with the engine loop running: every      *)
(* system runs in every frame, the world is maintained after the dispatch  *)
(* and the clock keeps advancing (up to MaxClock, by which every note of   *)
(* the chart is past its window).  A frame reads at most MaxLiveQueue      *)
(* window events.                                                          *)
(***************************************************************************)
MaxLiveQueue == 1
LiveBatches == SeqsUpTo(WindowEvents, MaxLiveQueue)

NextLive ==
    \/ StartSession
    \/ \E dt \in 0..MaxDt : AdvanceFrame(dt)
    \/ NoteSystemRun
    \/ \E evs \in LiveBatches : JudgeSystemRun(evs)
    \/ Maintain

LiveSpec ==
    /\ Init
    /\ [][NextLive]_vars
    /\ SF_vars(\E dt \in 1..MaxDt : AdvanceFrame(dt))
    /\ WF_vars(NoteSystemRun)
    /\ WF_vars(\E evs \in LiveBatches : JudgeSystemRun(evs))
    /\ WF_vars(Maintain)

(***************************************************************************)
(* Properties.                                                             *)
(***************************************************************************)
Running == settings # None

\* The 0-based indices of the elements of a timed sequence with lo <= time < hi,
\* in ascending order.
IndicesIn(seq, lo, hi) ==
    Ascending({i \in 0..Len(seq) - 1 : lo <= seq[i + 1].time /\ seq[i + 1].time < hi})

\* C1: over ticks with non-decreasing now, starting from last_time = 0, every
\* laser event with 0 <= time < now of the last tick has been processed
\* exactly once, and the events were processed in chart order: the log of
\* processed events is the ascending list of exactly those events.
C1_LaserEventsExactlyOnce ==
    pc # "aborted" =>
        processed = IndicesIn(chart.lasers, 0, state.last_time)

\* Several ticks have processed the five events at times 0, 0, 3, 3, 5 of
\* ChartLanes, ties and re-entry included, and skipped the one at time -1.
C1_Witness ==
    /\ chart = ChartLanes
    /\ pc # "aborted"
    /\ processed = <<1, 2, 3, 4, 5>>
    /\ state.last_time > 5

\* The suffix a step appended to a log.
Appended(old, new) == SubSeq(new, Len(old) + 1, Len(new))

NoDuplicates(seq) ==
    \A i, j \in 1..Len(seq) : i # j => seq[i] # seq[j]

\* A Running tick that completes: from state.last_time to now.
CompletedTick ==
    /\ pc = "note_system"
    /\ Running
    /\ pc' = "judge_system"

\* The step form of C2: the notes a completed tick spawns are exactly those
\* with last_time + speed <= time < now + speed, and now is not before
\* last_time, so that every earlier tick had now <= time - speed.
C2_TickSpawnsItsWindow ==
    CompletedTick =>
        LET now == clock - settings.base_time
        IN  /\ state.last_time <= now
            /\ state'.last_time = now
            /\ Appended(spawned, spawned') =
                   IndicesIn(chart.notes, state.last_time + settings.speed,
                             now + settings.speed)

\* C2: a note is spawned in a tick if and only if its time lies in
\* [last_time + speed, now + speed) of that tick; no note is spawned twice,
\* and a note is spawned in the first tick whose now exceeds time - speed.
C2_NotesSpawnInWindow ==
    /\ [][C2_TickSpawnsItsWindow]_vars
    /\ [](NoDuplicates(spawned))
    /\ [](pc # "aborted" =>
            spawned = IndicesIn(chart.notes, play.speed,
                                state.last_time + play.speed))

\* Both notes of ChartMain (time 10) were spawned, in chart order, by a tick
\* that moved last_time beyond 10 - speed.
C2_Witness ==
    /\ chart = ChartMain
    /\ pc = "judge_system"
    /\ spawned = <<0, 1>>
    /\ state.last_time + play.speed > 10
    /\ \A e \in DOMAIN note_storage : note_storage[e].transform

\* C3: for a slice sorted by time and lo <= hi, equal_range_by_time returns
\* the contiguous index range holding exactly the elements with
\* lo <= time < hi (empty when lo = hi); the ranges of [a,b) and [b,c) are
\* adjacent and their union is the range of [a,c).
ExactRange(slice, r, lo, hi) ==
    /\ 0 <= r[1] /\ r[1] <= r[2] /\ r[2] <= Len(slice)
    /\ \A i \in 0..Len(slice) - 1 :
          (r[1] <= i /\ i < r[2]) <=> (lo <= slice[i + 1].time /\ slice[i + 1].time < hi)
    /\ lo = hi => r[1] = r[2]

C3_RangeQueryExact ==
    (pc = "range" /\ rq.done) =>
        /\ ExactRange(rq.slice, rq.ab, rq.a, rq.b)
        /\ ExactRange(rq.slice, rq.bc, rq.b, rq.c)
        /\ ExactRange(rq.slice, rq.ac, rq.a, rq.c)
        /\ rq.ab[2] = rq.bc[1]
        /\ rq.ab[1] = rq.ac[1]
        /\ rq.bc[2] = rq.ac[2]

\* A slice with ties at both bounds: [1, 3) of <<1, 1, 2, 3>> is 0..3 and
\* [3, 4) is 3..4.
C3_Witness ==
    /\ pc = "range"
    /\ rq.done
    /\ rq.slice = <<[time |-> 1], [time |-> 1], [time |-> 2], [time |-> 3]>>
    /\ rq.a = 1 /\ rq.b = 3 /\ rq.c = 4
    /\ rq.ab = <<0, 3>>
    /\ rq.bc = <<3, 4>>

\* Entity ids run from 0 to MaxEntities in a session that is never ended.
MaxEntities == 4

Live(e) == e \in DOMAIN note_storage /\ note_storage[e].transform

HasVerdict(e) == \E i \in 1..Len(verdicts) : verdicts[i].entity = e

\* C4 as claimed: no note receives more than one verdict.
C4_AtMostOneVerdict ==
    \A i, j \in 1..Len(verdicts) :
        i # j => verdicts[i].entity # verdicts[j].entity

InputTime == (clock - settings.base_time) + settings.offset

LiveNotes == {e \in DOMAIN note_storage : note_storage[e].transform}

\* diff of a note against the input time of the frame.
DiffOf(e) == note_storage[e].time - InputTime

\* A Judgement Engine run with PlaySettings present.
JudgeStep ==
    /\ pc = "judge_system"
    /\ Running
    /\ pc' = "maintain"

KeyVerdicts(vs) == SelectSeq(vs, LAMBDA v : v.by = "key")
TimeoutVerdicts(vs) == SelectSeq(vs, LAMBDA v : v.by = "timeout")
EntitiesOf(vs) == [k \in 1..Len(vs) |-> vs[k].entity]

\* After a run, before the world is maintained, the verdicts of the run are
\* those whose note is still stored.
RunVerdicts ==
    {i \in 1..Len(verdicts) : verdicts[i].entity \in DOMAIN note_storage}

AfterJudgeRun == pc = "maintain" /\ Running

C6_Step ==
    JudgeStep =>
        LET new == Appended(verdicts, verdicts')
            timeouts == TimeoutVerdicts(new)
            due == {e \in LiveNotes : note_storage[e].time + 8 < InputTime}
        IN  /\ EntitiesOf(timeouts) = Ascending(due)
            /\ \A k \in 1..Len(timeouts) :
                  /\ timeouts[k].text = "MISS"
                  /\ timeouts[k].x = note_storage[timeouts[k].entity].x
                  /\ timeouts[k].y = note_storage[timeouts[k].entity].y
            /\ due \subseteq killed'
            /\ \A e \in LiveNotes \ due :
                  e \in killed' =>
                      \/ e \in killed
                      \/ \E k \in 1..Len(new) : new[k].by = "key" /\ new[k].entity = e

\* C6: in every run with PlaySettings present the sweep gives a MISS to, and
\* retires, exactly the live notes with time + 0.08 < input_time_now; a live
\* note with time + 0.08 >= input_time_now is left live by the sweep.
C6_SweepExact == [][C6_Step]_vars

\* The sweep retired a note in the first frame past its window.
C6_Witness ==
    /\ AfterJudgeRun
    /\ \E i \in RunVerdicts :
          /\ verdicts[i].by = "timeout"
          /\ DiffOf(verdicts[i].entity) = -9
          /\ verdicts[i].entity \in killed

Mapped(k) == \E j \in 1..Len(mapping) : mapping[j][1] = k
LaneOf(k) == mapping[CHOOSE j \in 1..Len(mapping) : mapping[j][1] = k][2]

InWindow == {e \in LiveNotes : -8 <= DiffOf(e) /\ DiffOf(e) < 15}

\* The run is about to start with PlaySettings present.
BeforeJudgeRun == pc = "judge_system" /\ Running

\* What the event loop of the run leaves when the one event read is a press
\* of key k.
AfterPress(k) == JudgeEvents(<<Pressed(k)>>, [verdicts |-> verdicts, killed |-> killed])

\* C7: on a mapped key press a live note is a timing candidate if and only
\* if -0.08 <= diff < 0.15: a press judges a note exactly when a note of the
\* window is in reach of the key, and whatever the events of a run, no note
\* outside the window is judged by a key press.
C7_TimeWindow ==
    /\ BeforeJudgeRun =>
          \A k \in Scancodes :
              Mapped(k) =>
                  LET keyv == KeyVerdicts(Appended(verdicts, AfterPress(k).verdicts))
                      reach == {e \in InWindow :
                                   NormSquared(LaneOf(k), note_storage[e].x,
                                               note_storage[e].y)
                                       <= settings.norm_threshold}
                  IN  /\ \A i \in 1..Len(keyv) : keyv[i].entity \in reach
                      /\ Len(keyv) = (IF reach = {} THEN 0 ELSE 1)
    /\ AfterJudgeRun =>
          \A i \in RunVerdicts :
              verdicts[i].by = "key" =>
                  (-8 <= DiffOf(verdicts[i].entity) /\ DiffOf(verdicts[i].entity) < 15)

\* A key press judged a note at diff = 0.14, the early end of the window.
C7_Witness ==
    /\ AfterJudgeRun
    /\ \E i \in RunVerdicts :
          verdicts[i].by = "key" /\ DiffOf(verdicts[i].entity) = 14

Abs(v) == IF v < 0 THEN -v ELSE v

\* C8 as claimed: the grade of a key press is symmetric around diff = 0.
C8_SymmetricGrades ==
    AfterJudgeRun =>
        \A i \in RunVerdicts :
            verdicts[i].by = "key" =>
                LET d == DiffOf(verdicts[i].entity)
                IN  /\ verdicts[i].text = "PERFECT" <=> Abs(d) < 4
                    /\ verdicts[i].text = "NEAR" <=> (4 <= Abs(d) /\ Abs(d) < 8)
                    /\ verdicts[i].text = "MISS" <=> Abs(d) >= 8

\* C8 amended: PERFECT if and only if -0.04 <= diff < 0.04, NEAR if and only
\* if -0.08 <= diff < -0.04 or 0.04 <= diff < 0.08, MISS for every other
\* diff of the eligibility window, that is 0.08 <= diff < 0.15.
C8_GradesLowerInclusive ==
    AfterJudgeRun =>
        \A i \in RunVerdicts :
            verdicts[i].by = "key" =>
                LET d == DiffOf(verdicts[i].entity)
                IN  /\ verdicts[i].text = "PERFECT" <=> (-4 <= d /\ d < 4)
                    /\ verdicts[i].text = "NEAR" <=>
                          ((-8 <= d /\ d < -4) \/ (4 <= d /\ d < 8))
                    /\ verdicts[i].text = "MISS" <=> (8 <= d /\ d < 15)

\* A key press 0.04 after the note's time was graded PERFECT.
C8_Witness ==
    /\ AfterJudgeRun
    /\ \E i \in RunVerdicts :
          /\ verdicts[i].by = "key"
          /\ DiffOf(verdicts[i].entity) = -4
          /\ verdicts[i].text = "PERFECT"

\* C9: on the early side a hit with 0 <= diff < 0.04 is PERFECT and a hit
\* with diff exactly 0.04 is NEAR.
C9_EarlyPerfectBoundary ==
    AfterJudgeRun =>
        \A i \in RunVerdicts :
            verdicts[i].by = "key" =>
                LET d == DiffOf(verdicts[i].entity)
                IN  /\ (0 <= d /\ d < 4) => verdicts[i].text = "PERFECT"
                    /\ d = 4 => verdicts[i].text = "NEAR"

\* A key press exactly 0.04 before the note's time was graded NEAR.
C9_Witness ==
    /\ AfterJudgeRun
    /\ \E i \in RunVerdicts :
          /\ verdicts[i].by = "key"
          /\ DiffOf(verdicts[i].entity) = 4
          /\ verdicts[i].text = "NEAR"

\* C10 as claimed: a key press gives no verdict to a note with diff exactly
\* 0.08 and does not retire it.
C10_Diff8NotEligible ==
    AfterJudgeRun =>
        \A i \in RunVerdicts :
            verdicts[i].by = "key" => DiffOf(verdicts[i].entity) # 8

\* C10 amended: a note with diff exactly 0.08 is eligible for a key press;
\* a press in reach of it gives it a MISS verdict, never PERFECT or NEAR,
\* and retires it.
C10_Diff8JudgedMiss ==
    /\ BeforeJudgeRun =>
          \A k \in Scancodes :
              ( /\ Mapped(k)
                /\ \A e \in LiveNotes : DiffOf(e) = 8
                /\ \E e \in LiveNotes :
                      NormSquared(LaneOf(k), note_storage[e].x, note_storage[e].y)
                          <= settings.norm_threshold )
              => LET new == Appended(verdicts, AfterPress(k).verdicts)
                 IN  /\ Len(new) = 1
                     /\ new[1].by = "key"
                     /\ new[1].text = "MISS"
                     /\ new[1].entity \in LiveNotes
                     /\ new[1].entity \in AfterPress(k).killed
    /\ AfterJudgeRun =>
          \A i \in RunVerdicts :
              (verdicts[i].by = "key" /\ DiffOf(verdicts[i].entity) = 8) =>
                  (verdicts[i].text = "MISS" /\ verdicts[i].entity \in killed)

\* A key press exactly 0.08 before the note's time gave it MISS and retired it.
C10_Witness ==
    /\ AfterJudgeRun
    /\ \E i \in RunVerdicts :
          /\ verdicts[i].by = "key"
          /\ DiffOf(verdicts[i].entity) = 8
          /\ verdicts[i].text = "MISS"
          /\ verdicts[i].entity \in killed

\* C11 as claimed: every verdict of a key press is PERFECT or NEAR, and every
\* MISS comes from the timeout sweep.
C11_KeyNeverMiss ==
    \A i \in 1..Len(verdicts) :
        /\ verdicts[i].by = "key" => verdicts[i].text \in {"PERFECT", "NEAR"}
        /\ verdicts[i].text = "MISS" => verdicts[i].by = "timeout"

\* C11 amended: a key press gives MISS exactly when the note it selects has
\* 0.08 <= diff < 0.15, and PERFECT or NEAR otherwise; every verdict of the
\* timeout sweep is MISS.
C11_KeyMissOnlyEarly ==
    /\ \A i \in 1..Len(verdicts) :
          /\ verdicts[i].text \in {"PERFECT", "NEAR", "MISS"}
          /\ verdicts[i].by = "timeout" => verdicts[i].text = "MISS"
    /\ AfterJudgeRun =>
          \A i \in RunVerdicts :
              verdicts[i].by = "key" =>
                  /\ verdicts[i].text = "MISS" <=>
                        (8 <= DiffOf(verdicts[i].entity) /\ DiffOf(verdicts[i].entity) < 15)
                  /\ verdicts[i].text \in {"PERFECT", "NEAR"} <=>
                        (-8 <= DiffOf(verdicts[i].entity) /\ DiffOf(verdicts[i].entity) < 8)

\* A key press 0.14 before the note's time gave it MISS, and the sweep gave
\* no verdict in that run.
C11_Witness ==
    /\ AfterJudgeRun
    /\ \E i \in RunVerdicts :
          /\ verdicts[i].by = "key"
          /\ verdicts[i].text = "MISS"
          /\ DiffOf(verdicts[i].entity) = 14
    /\ \A i \in RunVerdicts : verdicts[i].by = "key"

\* The spatial metric between key k and note e.
MetricOf(k, e) == NormSquared(LaneOf(k), note_storage[e].x, note_storage[e].y)

\* The notes that pass both filters of a press of key k.
Eligible(k) == {e \in InWindow : MetricOf(k, e) <= settings.norm_threshold}

\* C12: among the notes that pass the time window and the distance threshold
\* a key press judges one with the smallest spatial metric, whatever their
\* order in the join, and retires that note and no other.
C12_SmallestMetricWins ==
    BeforeJudgeRun =>
        \A k \in Scancodes :
            (Mapped(k) /\ Eligible(k) # {}) =>
                LET after == AfterPress(k)
                    new == Appended(verdicts, after.verdicts)
                IN  /\ Len(new) = 1
                    /\ new[1].entity \in Eligible(k)
                    /\ \A e \in Eligible(k) :
                          MetricOf(k, new[1].entity) <= MetricOf(k, e)
                    /\ after.killed = killed \cup {new[1].entity}

\* With every note in reach of every key, a press judged the later of two
\* notes of the window and left the earlier one, which comes first in the
\* join and has the smaller diff, alone.
C12_Witness ==
    /\ AfterJudgeRun
    /\ chart = ChartCross
    /\ settings.norm_threshold = 100000000
    /\ Cardinality(RunVerdicts) = 1
    /\ \E i \in RunVerdicts :
          /\ verdicts[i].by = "key"
          /\ \E e \in InWindow :
                /\ e < verdicts[i].entity
                /\ e \notin killed
                /\ DiffOf(e) < DiffOf(verdicts[i].entity)

\* The candidates of key k whose metric is the smallest.
Nearest(k) ==
    {e \in Eligible(k) : \A o \in Eligible(k) : MetricOf(k, e) <= MetricOf(k, o)}

\* The note a press of key k judges.
HitOf(k) == Appended(verdicts, AfterPress(k).verdicts)[1].entity

\* C13 as claimed: among candidates of the same minimal metric the key press
\* judges the one with the smallest |diff|.
C13_TieBreakByAbsDiff ==
    BeforeJudgeRun =>
        \A k \in Scancodes :
            (Mapped(k) /\ Eligible(k) # {}) =>
                /\ HitOf(k) \in Nearest(k)
                /\ \A e \in Nearest(k) : Abs(DiffOf(HitOf(k))) <= Abs(DiffOf(e))

\* C13 amended: among candidates of the same minimal metric the key press
\* judges the one with the smallest signed diff, that is the note whose time
\* is the earliest; between diff = -0.07 and diff = 0.01 it is the -0.07 note.
C13_TieBreakByDiff ==
    BeforeJudgeRun =>
        \A k \in Scancodes :
            (Mapped(k) /\ Eligible(k) # {}) =>
                /\ HitOf(k) \in Nearest(k)
                /\ \A e \in Nearest(k) : DiffOf(HitOf(k)) <= DiffOf(e)

\* A press of a key at the same distance from two notes of the window judged
\* the one already past its time and left the other, nearer to its time.
C13_Witness ==
    /\ AfterJudgeRun
    /\ Cardinality(RunVerdicts) = 1
    /\ \E i \in RunVerdicts :
          /\ verdicts[i].by = "key"
          /\ DiffOf(verdicts[i].entity) < 0
          /\ \E e \in InWindow \ killed :
                /\ Abs(DiffOf(e)) < Abs(DiffOf(verdicts[i].entity))
                /\ \E k \in Scancodes :
                      /\ Mapped(k)
                      /\ {e, verdicts[i].entity} \subseteq Eligible(k)
                      /\ MetricOf(k, e) = MetricOf(k, verdicts[i].entity)
                      /\ \A j \in Scancodes \ {k} :
                            Mapped(j) => MetricOf(j, e) < MetricOf(j, verdicts[i].entity)

\* C14: a note of the time window is discarded by the distance filter if and
\* only if its metric is strictly greater than norm_threshold: no such note
\* is judged by the press, and a press with a note at or under the threshold
\* judges a note.
C14_ThresholdInclusive ==
    BeforeJudgeRun =>
        \A k \in Scancodes :
            Mapped(k) =>
                LET after == AfterPress(k)
                    new == Appended(verdicts, after.verdicts)
                IN  /\ \A i \in 1..Len(new) :
                          MetricOf(k, new[i].entity) <= settings.norm_threshold
                    /\ \A e \in InWindow :
                          MetricOf(k, e) > settings.norm_threshold =>
                              (e \in after.killed => e \in killed)
                    /\ (\E e \in InWindow : MetricOf(k, e) <= settings.norm_threshold)
                          => Len(new) = 1

\* A press judged a note whose metric is exactly norm_threshold: one mapped
\* key is at that distance from the note and every other is beyond it.
C14_Witness ==
    /\ AfterJudgeRun
    /\ \E i \in RunVerdicts :
          /\ verdicts[i].by = "key"
          /\ \E k \in Scancodes :
                /\ Mapped(k)
                /\ MetricOf(k, verdicts[i].entity) = settings.norm_threshold
                /\ \A j \in Scancodes \ {k} :
                      Mapped(j) => MetricOf(j, verdicts[i].entity) > settings.norm_threshold

\* The event loop of the run, were the one event read a press of key k,
\* leaves the verdicts and the deleted entities as they are.
PressIgnored(k) == AfterPress(k) = [verdicts |-> verdicts, killed |-> killed]

\* C15: a mapped key press for which no live note passes both the time
\* window and the distance threshold emits no verdict and retires no note.
C15_NoCandidateNoVerdict ==
    BeforeJudgeRun =>
        \A k \in Scancodes :
            (Mapped(k) /\ Eligible(k) = {}) => PressIgnored(k)

\* A run is to handle a press of a mapped key while one live note is outside
\* the time window and another is inside it but beyond the threshold of the
\* key: the press gives no verdict.
C15_Witness ==
    /\ BeforeJudgeRun
    /\ LiveNotes \ InWindow # {}
    /\ \E k \in Scancodes \ {31} :
          /\ Mapped(k)
          /\ Eligible(k) = {}
          /\ InWindow # {}
          /\ PressIgnored(k)

\* The key identifiers of a layout.
KeysOf(map) ==
    UNION {{map.rows[i].keys[j] : j \in 1..Len(map.rows[i].keys)} :
              i \in 1..Len(map.rows)}

\* C16: a press of a key that is not in the table is ignored, whatever notes
\* are live: no verdict, no note retired; and the search of the table finds
\* a key if and only if the key is in the layout the table was built from.
C16_UnmappedKeyIgnored ==
    /\ \A k \in Scancodes :
          binary_search_by_key(mapping, k) # -1 <=> k \in KeysOf(Layout)
    /\ \A k \in KeysOf(Layout) :
          mapping[binary_search_by_key(mapping, k) + 1][1] = k
    /\ BeforeJudgeRun =>
          \A k \in Scancodes : k \notin KeysOf(Layout) => PressIgnored(k)

\* A run is to handle a press of a key that is not in the layout while a
\* note is live that a mapped key would judge: the press gives no verdict.
C16_Witness ==
    /\ BeforeJudgeRun
    /\ \E j \in KeysOf(Layout) : Eligible(j) # {}
    /\ \E k \in Scancodes \ KeysOf(Layout) :
          /\ Pressed(k) \in WindowEvents
          /\ PressIgnored(k)

\* A Scheduler tick run while PlaySettings is absent.
IdleTick == pc = "note_system" /\ settings = None /\ pc' # pc

\* C17: a Scheduler tick run while PlaySettings is absent leaves the
\* ChartState (last_time, draw_window, cutoff and the LaserId map) unchanged
\* and creates or destroys no lane-group and no note.
C17_IdleTickNoEffect ==
    [][IdleTick =>
          /\ state' = state
          /\ laser_storage' = laser_storage
          /\ note_storage' = note_storage
          /\ killed' = killed
          /\ next_eid' = next_eid
          /\ processed' = processed
          /\ spawned' = spawned]_vars

\* A tick has run without settings after a session that had loaded a
\* lane-group: the ChartState still holds the session's last_time and map.
C17_Witness ==
    /\ pc = "judge_system"
    /\ settings = None
    /\ state.last_time > 0
    /\ DOMAIN state.lasers # {}
    /\ DOMAIN laser_storage # {}
    /\ state # ChartStateDefault

\* A JudgeSystem run without PlaySettings, and the state it starts from.
IdleJudgeRun == pc = "judge_system" /\ settings = None /\ pc' # pc
BeforeIdleJudgeRun == pc = "judge_system" /\ settings = None

\* The elements of a sequence.
Range(seq) == {seq[i] : i \in DOMAIN seq}

\* Note e is past its timeout window under any settings a session can have:
\* whatever base_time and offset were, the sweep of a session would retire it.
PastAnyWindow(e) ==
    \A o \in PlayOptions :
        note_storage[e].time + NEAR_WINDOW < clock - MaxStart + o.offset

\* C18 as stated: while PlaySettings is absent a key press emits no verdict
\* and retires no note, and a press of a mapped key is not consumed and
\* lost: it is still unread after the run.
C18_MappedPressKeptWhileIdle ==
    BeforeIdleJudgeRun =>
        \A k \in Scancodes :
            /\ PressIgnored(k)
            /\ Mapped(k) => Pressed(k) \in Range(Unread(unread \o <<Pressed(k)>>))

\* C18: while PlaySettings is absent a JudgeSystem run emits no verdict and
\* retires no note, by key press or by the timeout sweep, and every event it
\* reads, of a mapped key or not, is consumed: none is left for a later run.
C18_IdleJudgeConsumesAll ==
    [][IdleJudgeRun =>
          /\ verdicts' = verdicts
          /\ killed' = killed
          /\ note_storage' = note_storage
          /\ laser_storage' = laser_storage
          /\ unread' = <<>>]_vars

\* A JudgeSystem run without settings has ended while a note of the ended
\* session is live and long past its window: it was not retired, it has no
\* verdict, and nothing is left unread.
C18_Witness ==
    /\ pc = "maintain"
    /\ settings = None
    /\ unread = <<>>
    /\ killed = {}
    /\ \E e \in DOMAIN note_storage : PastAnyWindow(e) /\ ~HasVerdict(e)
    /\ \E k \in Scancodes : Mapped(k)

\* A Running tick taken at the now the preceding tick left in last_time.
RepeatTick ==
    /\ pc = "note_system"
    /\ Running
    /\ state.last_time = NowRel
    /\ pc' # pc

\* C19: a second Running tick with the same now as the tick before it
\* processes no laser event and spawns no note, and leaves last_time and the
\* LaserId map as the first tick left them.
C19_RepeatTickIdempotent ==
    [][RepeatTick =>
          /\ pc' = "judge_system"
          /\ processed' = processed
          /\ spawned' = spawned
          /\ state'.last_time = state.last_time
          /\ state'.lasers = state.lasers
          /\ laser_storage' = laser_storage
          /\ note_storage' = note_storage
          /\ next_eid' = next_eid]_vars

\* A second tick is about to run at the now of a tick that loaded a
\* lane-group and spawned a note with time = now + speed at the latest, while
\* the chart has a note exactly at now + speed: both ranges of the second
\* tick are empty, the note at the bound is not spawned.
C19_Witness ==
    /\ pc = "note_system"
    /\ Running
    /\ NowRel > 0
    /\ state.last_time = NowRel
    /\ processed # <<>>
    /\ spawned # <<>>
    /\ \E i \in 1..Len(chart.notes) : chart.notes[i].time = NowRel + settings.speed
    /\ \E i \in 0..Len(chart.lasers) :
           LaserRange(chart.lasers, state.last_time, NowRel) = <<i, i>>
    /\ \E i \in 0..Len(chart.notes) :
           NoteRange(chart.notes, state.last_time, NowRel, settings.speed) = <<i, i>>

\* The 0-based indices of the notes of the chart at time = speed, where the
\* chart has an Enter at time 0.
BoundaryNotes ==
    IF \E j \in 1..Len(chart.lasers) :
           chart.lasers[j].cmd = "Enter" /\ chart.lasers[j].time = 0
    THEN {i \in 0..Len(chart.notes) - 1 : chart.notes[i + 1].time = settings.speed}
    ELSE {}

\* A Running tick on a ChartState whose last_time is 0 and whose LaserId map
\* is empty, as ChartState::default leaves them.
FreshTick ==
    /\ pc = "note_system"
    /\ Running
    /\ state.last_time = 0
    /\ state.lasers = EmptyMap
    /\ BoundaryNotes # {}
    /\ pc' # pc

\* C20 as stated: with an Enter at t = 0, a note at time = speed and a fresh
\* ChartState, the first tick, taken at now = 0, spawns the note.
C20_SpawnedAtNowZero ==
    [][FreshTick /\ NowRel = 0 =>
          \A i \in BoundaryNotes : i \in Range(Appended(spawned, spawned'))]_vars

\* C20: with an Enter at t = 0, a note at time = speed and a fresh
\* ChartState, the first tick taken at now = 0 loads no lane-group and spawns
\* no note (both ranges are empty) and leaves last_time at 0; the note is
\* spawned by the first tick with now > 0, which also loads the lane-group.
C20_SpawnedAfterNowZero ==
    [][FreshTick =>
          IF NowRel = 0
          THEN /\ pc' = "judge_system"
               /\ spawned' = spawned
               /\ processed' = processed
               /\ note_storage' = note_storage
               /\ laser_storage' = laser_storage
               /\ state'.last_time = 0
               /\ state'.lasers = EmptyMap
          ELSE pc' = "judge_system" =>
                   /\ \A i \in BoundaryNotes :
                          i \in Range(Appended(spawned, spawned'))
                   /\ processed' # processed]_vars

\* The first tick of a session has run at now = 0 on the fresh ChartState of
\* a chart with an Enter at 0 and a note at time = speed: the draw window is
\* set, and nothing is loaded or spawned.
C20_Witness ==
    /\ pc = "judge_system"
    /\ Running
    /\ NowRel = 0
    /\ BoundaryNotes # {}
    /\ state # ChartStateDefault
    /\ state.last_time = 0
    /\ state.lasers = EmptyMap
    /\ spawned = <<>>
    /\ processed = <<>>
    /\ DOMAIN note_storage = {}

\* A Running tick, completed or aborted.
RunningTick == pc = "note_system" /\ Running /\ pc' # pc

Max(S) == CHOOSE x \in S : \A y \in S : y <= x

\* The 1-based indices of the laser events and of the notes due in the tick
\* about to run.
DueLasers ==
    {j \in 1..Len(chart.lasers) :
        state.last_time <= chart.lasers[j].time /\ chart.lasers[j].time < NowRel}
DueNotes ==
    {j \in 1..Len(chart.notes) :
        /\ state.last_time + settings.speed <= chart.notes[j].time
        /\ chart.notes[j].time < NowRel + settings.speed}

\* Whether id is in the registry once the due laser events before index i
\* are processed: the last of them decides, the registry at the start of the
\* tick otherwise.
RegisteredAt(i, id) ==
    LET before == {j \in DueLasers : j < i /\ chart.lasers[j].id = id}
    IN  IF before = {} THEN id \in DOMAIN state.lasers
        ELSE chart.lasers[Max(before)].cmd = "Enter"

\* The tick about to run reaches an Enter for a registered LaserId, a Leave
\* for an unregistered one, or a due note whose laser is not registered.
DupEnterDue ==
    \E i \in DueLasers :
        chart.lasers[i].cmd = "Enter" /\ RegisteredAt(i, chart.lasers[i].id)
BadLeaveDue ==
    \E i \in DueLasers :
        chart.lasers[i].cmd = "Leave" /\ ~RegisteredAt(i, chart.lasers[i].id)
BadNoteDue ==
    \E i \in DueNotes :
        ~RegisteredAt(Len(chart.lasers) + 1, chart.notes[i].laser)

\* C21: a Running tick that reaches an Enter for a registered LaserId, a
\* Leave for an unregistered LaserId or a due note with an unregistered
\* laser aborts, and an aborted tick commits none of last_time, draw_window
\* and cutoff.
C21_ViolationAbortsUncommitted ==
    [][RunningTick =>
          /\ (DupEnterDue \/ BadLeaveDue \/ BadNoteDue) => pc' = "aborted"
          /\ pc' = "aborted" =>
                 /\ state'.last_time = state.last_time
                 /\ state'.draw_window = state.draw_window
                 /\ state'.cutoff = state.cutoff]_vars

\* A tick of a session that had completed ticks has aborted on the second
\* Enter of a LaserId: the registry holds the entity of the second Enter,
\* and last_time is still that of the last completed tick.
C21_Witness ==
    /\ pc = "aborted"
    /\ chart = ChartDupEnter
    /\ 0 < state.last_time
    /\ state.last_time < NowRel
    /\ state.draw_window.start = position_for_time(chart.bpm, state.last_time)
    /\ DOMAIN state.lasers = {0, 1}
    /\ Cardinality(DOMAIN laser_storage) = 3

\* Every note of the chart has an Enter of its laser before its time and no
\* Leave of its laser before its time.
NoteLasersEntered ==
    \A i \in 1..Len(chart.notes) :
        /\ \E j \in 1..Len(chart.lasers) :
              /\ chart.lasers[j].cmd = "Enter"
              /\ chart.lasers[j].id = chart.notes[i].laser
              /\ chart.lasers[j].time < chart.notes[i].time
        /\ ~\E j \in 1..Len(chart.lasers) :
              /\ chart.lasers[j].cmd = "Leave"
              /\ chart.lasers[j].id = chart.notes[i].laser
              /\ chart.lasers[j].time < chart.notes[i].time

\* C22: where every note's laser has an Enter before the note's time and no
\* Leave before it, every note spawned has resolved its laser: no note
\* entity is left without its transform by a tick that aborted on an
\* unknown LaserId.
C22_NoteLaserResolved ==
    NoteLasersEntered =>
        \A e \in DOMAIN note_storage :
            note_storage[e].transform

\* The position the formula of position_for_time gives from one tempo point.
PositionFrom(point, time) == point.position + (time - point.time) * point.bpm

\* The 1-based index of the last point of bpms at or before time, and of the
\* last point before time; the first point where there is none.
LastPointLE(bpms, time) ==
    LET at_or_before == {i \in 1..Len(bpms) : bpms[i].time <= time}
    IN  IF at_or_before = {} THEN 1 ELSE Max(at_or_before)
LastPointLT(bpms, time) ==
    LET before == {i \in 1..Len(bpms) : bpms[i].time < time}
    IN  IF before = {} THEN 1 ELSE Max(before)

TempoDone == pc = "tempo" /\ rq.done

\* C23 as stated: position_for_time computes its result from the last tempo
\* point whose time is <= the queried time, also where the queried time is
\* the time of a tempo point, and from the first point where the queried
\* time precedes all points.
C23_FromLastPointAtOrBefore ==
    TempoDone =>
        rq.p1 = PositionFrom(rq.bpms[LastPointLE(rq.bpms, rq.t1)], rq.t1)

\* C23: position_for_time computes its result from the last tempo point
\* whose time is < the queried time, and from the first point where no
\* point is earlier than the queried time: where the queried time is the
\* time of a tempo point after the first, the point before it is used.
C23_FromLastPointBefore ==
    TempoDone =>
        /\ rq.p1 = PositionFrom(rq.bpms[LastPointLT(rq.bpms, rq.t1)], rq.t1)
        /\ rq.p2 = PositionFrom(rq.bpms[LastPointLT(rq.bpms, rq.t2)], rq.t2)

\* position_for_time was applied at the time of the second of two tempo
\* points with different times, and the result is that of the first point
\* and not that of the second.
C23_Witness ==
    /\ TempoDone
    /\ Len(rq.bpms) = 2
    /\ rq.bpms[1].time < rq.bpms[2].time
    /\ rq.t1 = rq.bpms[2].time
    /\ rq.p1 = PositionFrom(rq.bpms[1], rq.t1)
    /\ rq.p1 # PositionFrom(rq.bpms[2], rq.t1)

\* No bpm of the sequence is negative.
NonNegativeBpm(bpms) == \A i \in 1..Len(bpms) : bpms[i].bpm >= 0

\* The positions of the sequence are cumulative: each point's position is
\* the position the point before it gives at the point's time.
Cumulative(bpms) ==
    \A i \in 2..Len(bpms) : bpms[i].position = PositionFrom(bpms[i - 1], bpms[i].time)

\* C24 as stated: for every tempo sequence sorted by time whose bpm values
\* are non-negative, t1 <= t2 implies
\* position_for_time(t1) <= position_for_time(t2).
C24_MonotoneForNonNegativeBpm ==
    (TempoDone /\ NonNegativeBpm(rq.bpms)) => rq.p1 <= rq.p2

\* C24: for every tempo sequence sorted by time whose bpm values are
\* non-negative and whose positions are cumulative, t1 <= t2 implies
\* position_for_time(t1) <= position_for_time(t2), also across the times of
\* the tempo points.
C24_MonotoneForCumulative ==
    (TempoDone /\ rq.t1 <= rq.t2 /\ NonNegativeBpm(rq.bpms) /\ Cumulative(rq.bpms))
        => rq.p1 <= rq.p2

\* position_for_time was applied before and after the second of two tempo
\* points with different tempos and cumulative positions, and the position
\* grew across it.
C24_Witness ==
    /\ TempoDone
    /\ Len(rq.bpms) = 2
    /\ NonNegativeBpm(rq.bpms)
    /\ Cumulative(rq.bpms)
    /\ rq.bpms[1].bpm # rq.bpms[2].bpm
    /\ rq.bpms[2].position > rq.bpms[1].position
    /\ rq.t1 < rq.bpms[2].time
    /\ rq.bpms[2].time < rq.t2
    /\ rq.p1 < rq.p2

\* a <= b for fractions <<n, d>> with d > 0.
FracLE(a, b) == a[1] * b[2] <= b[1] * a[2]

Ceiling == <<95, 100>>

\* C25: after a Running tick that completes, cutoff is min(raw_cutoff, 0.95)
\* and so at most 0.95, last_time is the tick's now, and draw_window starts
\* at position_for_time(now) and ends at
\* start_pos + (end_pos - start_pos) * clamped_cutoff / raw_cutoff (the ratio
\* is 1 where the cutoff is not clamped and 19/20 / raw_cutoff where it is),
\* which is not beyond end_pos where raw_cutoff > 0.
C25_TickCommit ==
    [][CompletedTick =>
          LET now == NowRel
              start_pos == position_for_time(chart.bpm, now)
              end_pos == position_for_time(chart.bpm, now + settings.speed)
              raw == <<7 * (end_pos - start_pos), 10 * chart.default_bpm * settings.speed>>
              clamped == state'.cutoff
          IN  /\ FracLE(clamped, Ceiling)
              /\ FracLE(raw, Ceiling) => clamped = raw
              /\ ~FracLE(raw, Ceiling) => clamped = Ceiling
              /\ state'.last_time = now
              /\ state'.draw_window.start = start_pos
              /\ raw[1] > 0 =>
                     /\ ~state'.draw_window.nan
                     /\ state'.draw_window.end =
                            IF clamped = raw THEN end_pos
                            ELSE start_pos + ((end_pos - start_pos) * 19 * raw[2])
                                                 \div (20 * raw[1])
                     /\ state'.draw_window.end <= end_pos
                     /\ state'.draw_window.end > start_pos]_vars

\* A tick has completed at now > 0 with the cutoff at its ceiling: the draw
\* window ends before position_for_time(now + speed).
C25_Witness ==
    /\ pc = "judge_system"
    /\ Running
    /\ NowRel > 0
    /\ state.last_time = NowRel
    /\ state.cutoff = Ceiling
    /\ state.draw_window.start = position_for_time(chart.bpm, NowRel)
    /\ state.draw_window.end < position_for_time(chart.bpm, NowRel + settings.speed)
    /\ state.draw_window.end > state.draw_window.start

\* The coordinate (x, y), in thousandths, of the key at row r, index j (both
\* 0-based) of a layout: x = (offset + j) / width with the configured width
\* of the layout, y = r / row_count.
ConfiguredCoordinate(map, r, j) ==
    <<((map.rows[r + 1].offset + j) * 1000) \div map.width,
      (r * 1000) \div Len(map.rows)>>

\* C26: the table built from the layout gives the key at row r, index j the
\* coordinate (x, y) with x = (offset + j) / width of the layout and
\* y = r / row_count, and the metric of a press of that key to a live note is
\* taken from that coordinate.
C26_ConfiguredCoordinates ==
    BeforeJudgeRun =>
        \A r \in 0..Len(Layout.rows) - 1 :
            \A j \in 0..Len(Layout.rows[r + 1].keys) - 1 :
                LET k == Layout.rows[r + 1].keys[j + 1]
                    input_pos == mapping[binary_search_by_key(mapping, k) + 1][2]
                IN  /\ input_pos = ConfiguredCoordinate(Layout, r, j)
                    /\ \A e \in LiveNotes :
                          MetricOf(k, e) =
                              NormSquared(ConfiguredCoordinate(Layout, r, j),
                                          note_storage[e].x, note_storage[e].y)

\* The LaserIds whose most recently processed event is an Enter.
EnteredIds ==
    {chart.lasers[processed[i] + 1].id : i \in
        {i \in 1..Len(processed) :
            /\ chart.lasers[processed[i] + 1].cmd = "Enter"
            /\ \A j \in i + 1..Len(processed) :
                  chart.lasers[processed[j] + 1].id # chart.lasers[processed[i] + 1].id}}

\* The lane-group entities that are not deleted.
LiveLaneGroups == DOMAIN laser_storage \ killed

\* C27: as long as no tick has aborted, the LaserId map holds exactly the
\* LaserIds whose most recently processed event is an Enter, each with its
\* own lane-group, and the live lane-groups are exactly those of the map: a
\* processed Leave has removed its own LaserId and destroyed the lane-group
\* of that LaserId and no other.
C27_RegistryMatchesLog ==
    pc # "aborted" =>
        /\ DOMAIN state.lasers = EnteredIds
        /\ {state.lasers[id] : id \in DOMAIN state.lasers} = LiveLaneGroups
        /\ \A a, b \in DOMAIN state.lasers : state.lasers[a] = state.lasers[b] => a = b

\* Two lane-groups have entered, one of them has left, entered again and
\* left again: the map holds the other alone, and after the maintain one
\* lane-group is left.
C27_Witness ==
    /\ pc = "frame"
    /\ chart = ChartLanes
    /\ Len(processed) = 5
    /\ DOMAIN state.lasers = {0}
    /\ Cardinality(DOMAIN laser_storage) = 1
    /\ next_eid >= 3

\* Note e has a verdict of the given source among the verdicts of the run.
JudgedBy(e, source) ==
    \E i \in RunVerdicts : verdicts[i].entity = e /\ verdicts[i].by = source

\* C28: for the input time of one run, the time filter of a key press
\* (diff >= -0.08, diff < 0.15) and the filter of the sweep
\* (note.time + 0.08 < input_time) are mutually exclusive and cover every
\* live note with diff < 0.15; after the run no note has both a verdict of a
\* key press and a verdict of the sweep, every live note with diff < -0.08
\* has the verdict of the sweep, and every note judged by a key press has
\* -0.08 <= diff < 0.15.
C28_KeyAndTimeoutPartition ==
    /\ BeforeJudgeRun =>
          \A e \in LiveNotes :
              LET key == InTimeWindow(note_storage[e].time - KeyRel)
                  late == TimedOut(note_storage[e].time, SweepRel)
              IN  /\ ~(key /\ late)
                  /\ DiffOf(e) < 15 => (key \/ late)
    /\ AfterJudgeRun =>
          \A e \in LiveNotes :
              /\ ~(JudgedBy(e, "key") /\ JudgedBy(e, "timeout"))
              /\ DiffOf(e) < -8 => JudgedBy(e, "timeout")
              /\ JudgedBy(e, "timeout") => DiffOf(e) < -8
              /\ JudgedBy(e, "key") => (-8 <= DiffOf(e) /\ DiffOf(e) < 15)

\* A run has judged a note with diff = -0.08 exactly by a key press, and the
\* sweep of the same run has left it alone.
C28_Witness ==
    /\ AfterJudgeRun
    /\ \E e \in LiveNotes :
          /\ DiffOf(e) = -8
          /\ JudgedBy(e, "key")
          /\ ~JudgedBy(e, "timeout")
          /\ e \in killed

\* C29: a Running tick whose now is smaller than last_time aborts before any
\* lane-group or note is created or destroyed and before the ChartState is
\* modified.
C29_BackwardsTickAborts ==
    [][(RunningTick /\ NowRel < state.last_time) =>
          /\ pc' = "aborted"
          /\ state' = state
          /\ laser_storage' = laser_storage
          /\ note_storage' = note_storage
          /\ killed' = killed
          /\ next_eid' = next_eid
          /\ processed' = processed
          /\ spawned' = spawned]_vars

\* A session started over the ChartState of an earlier session, whose
\* last_time is ahead of the new session's now, has aborted in its first
\* tick: the lane-group of the earlier session is still there and nothing
\* is deleted.
C29_Witness ==
    /\ pc = "aborted"
    /\ Running
    /\ NowRel < state.last_time
    /\ DOMAIN state.lasers # {}
    /\ DOMAIN laser_storage = {state.lasers[id] : id \in DOMAIN state.lasers}
    /\ killed = {}
    /\ state.draw_window.start = position_for_time(chart.bpm, state.last_time)

\* C30: from the default ChartState and with now never decreasing, no note
\* whose time is smaller than speed is ever spawned and no laser event with
\* a negative time is ever processed; every verdict is for a spawned note,
\* so that no note earlier than speed gets a verdict.
C30_EarlyNotesNeverSpawned ==
    [][/\ \A i \in 1..Len(spawned') : chart.notes[spawned'[i] + 1].time >= play.speed
       /\ \A i \in 1..Len(processed') : chart.lasers[processed'[i] + 1].time >= 0
       /\ \A e \in DOMAIN note_storage' : note_storage'[e].time >= play.speed
       /\ \A i \in Len(verdicts) + 1..Len(verdicts') :
             /\ verdicts'[i].entity \in DOMAIN note_storage
             /\ note_storage[verdicts'[i].entity].time >= play.speed]_vars

\* The session has run past the end of a chart with an Enter at a negative
\* time and a note earlier than speed: the Enter was not processed, the
\* later note alone was spawned, and it has its verdict.
C30_Witness ==
    /\ pc = "frame"
    /\ Running
    /\ chart = ChartLanes
    /\ chart.lasers[1].time < 0
    /\ chart.notes[1].time < settings.speed
    /\ NowRel + settings.offset > chart.notes[2].time + NEAR_WINDOW
    /\ spawned = <<1>>
    /\ processed = <<1, 2, 3, 4, 5>>
    /\ Len(verdicts) = 1
    /\ DOMAIN note_storage = {}

Min(S) == CHOOSE x \in S : \A y \in S : x <= y

\* The due LineTo events of the tick about to run, and the due laser events
\* before the first of them.
DueLineTo == {i \in DueLasers : chart.lasers[i].cmd = "LineTo"}
BeforeLineTo == {i \in DueLasers : i < Min(DueLineTo)}

\* The events before the first due LineTo break no chart invariant.
ValidBeforeLineTo ==
    \A i \in BeforeLineTo :
        /\ chart.lasers[i].cmd = "Enter" => ~RegisteredAt(i, chart.lasers[i].id)
        /\ chart.lasers[i].cmd = "Leave" => RegisteredAt(i, chart.lasers[i].id)

\* C31: a Running tick with a LineTo in its range [last_time, now) aborts;
\* no note is spawned and last_time is not advanced, and the lifecycle
\* events before the LineTo in the range have been applied: they are
\* logged in order and the registry holds what they leave.
C31_LineToAborts ==
    [][(RunningTick /\ DueLineTo # {}) =>
          /\ pc' = "aborted"
          /\ spawned' = spawned
          /\ note_storage' = note_storage
          /\ state'.last_time = state.last_time
          /\ state'.draw_window = state.draw_window
          /\ ValidBeforeLineTo =>
                 /\ Appended(processed, processed')
                        = Ascending({i - 1 : i \in BeforeLineTo})
                 /\ Len(processed') = Len(processed) + Cardinality(BeforeLineTo)
                 /\ DOMAIN state'.lasers =
                        {id \in {chart.lasers[i].id : i \in 1..Len(chart.lasers)} :
                            RegisteredAt(Min(DueLineTo), id)}
                 /\ \A id \in DOMAIN state'.lasers :
                        state'.lasers[id] \in DOMAIN laser_storage']_vars

\* A tick whose range held an Enter and then a LineTo has aborted: the Enter
\* of that range is in the registry with its lane-group, no note was
\* spawned and last_time is before the Enter.
C31_Witness ==
    /\ pc = "aborted"
    /\ chart = ChartLineTo
    /\ state.last_time <= chart.lasers[2].time
    /\ NowRel > chart.lasers[3].time
    /\ processed = <<0, 1>>
    /\ DOMAIN state.lasers = {0, 1}
    /\ state.lasers[1] \in DOMAIN laser_storage
    /\ spawned = <<>>
    /\ DOMAIN note_storage = {}

\* The eligible notes of a press of key k that no eligible note precedes in
\* the order of the comparator: the smallest metric and, at that metric, the
\* smallest diff.
Tied(k) ==
    {e \in Eligible(k) :
        \A f \in Eligible(k) :
            \/ MetricOf(k, e) < MetricOf(k, f)
            \/ MetricOf(k, e) = MetricOf(k, f) /\ DiffOf(e) <= DiffOf(f)}

\* C32: where two or more eligible candidates of a key press have the same
\* metric and the same diff, and no candidate precedes them, the press judges
\* the one the join enumerates first, the smallest entity, and retires that
\* one alone.
C32_FirstEnumeratedWins ==
    BeforeJudgeRun =>
        \A k \in Scancodes :
            (Mapped(k) /\ Cardinality(Tied(k)) >= 2) =>
                LET after == AfterPress(k)
                    new == Appended(verdicts, after.verdicts)
                IN  /\ Len(new) = 1
                    /\ new[1].entity = Min(Tied(k))
                    /\ new[1].by = "key"
                    /\ after.killed = killed \cup {Min(Tied(k))}

\* With a threshold only the key between two lanes meets, a run has judged
\* by key the first enumerated of two notes with the same time and the same
\* metric to that key, and left the second without verdict.
C32_Witness ==
    /\ AfterJudgeRun
    /\ settings.norm_threshold = 2372500
    /\ \E a, b \in LiveNotes :
          /\ a < b
          /\ DiffOf(a) = DiffOf(b)
          /\ \E k \in Scancodes :
                /\ Mapped(k)
                /\ MetricOf(k, a) = settings.norm_threshold
                /\ MetricOf(k, b) = settings.norm_threshold
          /\ JudgedBy(a, "key")
          /\ a \in killed
          /\ b \notin killed
          /\ ~HasVerdict(b)

====
